---- MODULE Spec2Model ----
(***************************************************************************)
(* Model of graphql/execution/values.py: get_variable_values,              *)
(* get_argument_values and get_directive_values.                           *)
(*                                                                         *)
(* Each function is a loop over a list; one action models one iteration    *)
(* of the loop (the whole loop body), one more models the return.          *)
(* Python's None is the string "None", the INVALID sentinel is "INVALID".  *)
(***************************************************************************)
EXTENDS Integers, Sequences, FiniteSets, TLC

VARIABLES
    pc,               \* "loop" | "done"
    i,                \* 1-based index of the next list element of the running loop
    var_def_nodes,    \* get_variable_values: the variable definition nodes
    inputs,           \* get_variable_values: the raw inputs (a dict)
    errors,           \* get_variable_values: list of references into heap
    heap,             \* the GraphQLError objects allocated so far
    produced,         \* ref -> message the object had when coerce_value returned it
    type_def,         \* get_argument_values / get_directive_values: [name, args]
    node,             \* the field/directive node: [arguments] or [directives]
    variable_values,  \* [is_none, map]
    coerced_values,   \* the dict under construction
    calls,            \* indices of the argument definitions given to value_from_ast
    result            \* [kind, errors, values, error]

vars == <<pc, i, var_def_nodes, inputs, errors, heap, produced, type_def, node,
          variable_values, coerced_values, calls, result>>

\* ---------------------------------------------------------------- bounds
MaxVarDefs == 2
MaxNested == 2
MaxArgNodes == 2
MaxDirectives == 2

\* ---------------------------------------------------------------- python values
None == "None"
INVALID == "INVALID"
EmptyDict == <<>>

Put(d, k, v) == [x \in (DOMAIN d) \cup {k} |-> IF x = k THEN v ELSE d[x]]

NoResult == [kind |-> "none", errors |-> <<>>, values |-> EmptyDict, error |-> <<>>]

\* ---------------------------------------------------------------- types
\* A type is [name, non_null, input]; type nodes are their printed form.
TypeNodes == {"Obj", "Int", "Int!"}

type_from_ast(type_node) ==
    CASE type_node = "Int!" -> [name |-> "Int", non_null |-> TRUE, input |-> TRUE]
      [] type_node = "Int" -> [name |-> "Int", non_null |-> FALSE, input |-> TRUE]
      [] OTHER -> [name |-> type_node, non_null |-> FALSE, input |-> FALSE]

is_input_type(t) == t.input

is_non_null_type(t) == t.non_null

print_ast(n) == n

inspect_type(t) == IF t.non_null THEN t.name \o "!" ELSE t.name

\* ---------------------------------------------------------------- raw values
\* A raw input value is null, a value that coerces, or a value for which
\* coerce_value reports n nested errors.
RawValues ==
    {[kind |-> "null", n |-> 0], [kind |-> "good", n |-> 0]}
      \cup {[kind |-> "bad", n |-> k] : k \in 1..MaxNested}

inspect(value) ==
    IF value.kind = "null" THEN "None" ELSE "'" \o value.kind \o ToString(value.n) \o "'"

GraphQLError(message, at) == [message |-> message, node |-> at]

\* coerce_value(value, type, blame_node): [value, errors]
coerce_value(value, t, blame_node) ==
    IF value.kind = "bad"
    THEN [value |-> INVALID,
          errors |-> [k \in 1..value.n |->
                        GraphQLError(<<"Expected type", inspect_type(t), "#" \o ToString(k)>>,
                                     blame_node)]]
    ELSE [value |-> IF value.kind = "null" THEN None ELSE "coerced " \o inspect(value),
          errors |-> <<>>]

\* value_from_ast on the literal of a variable's default value
default_from_ast(default_value, t) ==
    IF default_value = "null"
    THEN (IF is_non_null_type(t) THEN INVALID ELSE None)
    ELSE "literal " \o default_value

\* ---------------------------------------------------------------- get_variable_values
VarNames == {"x", "y"}
InputKeys == VarNames \cup {"z"}
NoDefault == "NoDefault"
VarDefaults == {NoDefault, "7"}

VarDefNodes == [name : VarNames, type : TypeNodes, default_value : VarDefaults]

\* truthiness of var_def_node.default_value: a node, or None
HasDefault(var_def_node) == var_def_node.default_value # NoDefault

\* The function's locals as a record st = [errors, heap, produced, coerced_values]
NewError(st, error) ==
    [st EXCEPT !.heap = Append(st.heap, error),
               !.errors = Append(st.errors, Len(st.heap) + 1)]

InvalidTypeError(st, k, var_def_node) ==
    NewError(st, GraphQLError(
        <<"Variable", "$" \o var_def_node.name, "expected value of type",
          print_ast(var_def_node.type), "which cannot be used as an input type.">>,
        <<k, "type">>))

\* mutation: the required-variable check is forgotten
NotProvidedSilent(st, k, var_def_node, var_type) ==
    IF HasDefault(var_def_node)
    THEN [st EXCEPT !.coerced_values =
             Put(st.coerced_values, var_def_node.name,
                 default_from_ast(var_def_node.default_value, var_type))]
    ELSE st

NotProvided(st, k, var_def_node, var_type) ==
    LET st1 == IF HasDefault(var_def_node)
               THEN [st EXCEPT !.coerced_values =
                        Put(st.coerced_values, var_def_node.name,
                            default_from_ast(var_def_node.default_value, var_type))]
               ELSE st
    IN IF is_non_null_type(var_type)
       THEN NewError(st1, GraphQLError(
                <<"Variable", "$" \o var_def_node.name, "of required type",
                  inspect_type(var_type), "was not provided.">>,
                <<k, "def">>))
       ELSE st1

NullError(st, k, var_def_node, var_type) ==
    NewError(st, GraphQLError(
        <<"Variable", "$" \o var_def_node.name, "of non-null type",
          inspect_type(var_type), "must not be null.">>,
        <<k, "def">>))

Prefix(var_name, value) ==
    <<"Variable", "$" \o var_name, "got invalid value", inspect(value), ";">>

\* mutation: the error list gets copies carrying the new message, the objects
\* coerce_value returned are left as they were
CoerceAndStoreCopies(st, k, var_def_node, var_type, value) ==
    LET coerced == coerce_value(value, var_type, <<k, "def">>)
        coercion_errors == coerced.errors
        n == Len(coercion_errors)
        base == Len(st.heap)
        copies == [j \in 1..n |->
                     [coercion_errors[j] EXCEPT !.message =
                         Prefix(var_def_node.name, value) \o coercion_errors[j].message]]
    IN IF n > 0
       THEN [st EXCEPT !.heap = st.heap \o coercion_errors \o copies,
                       !.produced = [r \in (DOMAIN st.produced) \cup {base + j : j \in 1..n} |->
                                        IF r \in DOMAIN st.produced THEN st.produced[r]
                                        ELSE coercion_errors[r - base].message],
                       !.errors = st.errors \o [j \in 1..n |-> base + n + j]]
       ELSE [st EXCEPT !.coerced_values =
                Put(st.coerced_values, var_def_node.name, coerced.value)]

\* lines 93-104: the objects coerce_value returned are put on the heap (they
\* exist from the moment it returns), their message is assigned, and the error
\* list is extended by those same objects.
CoerceAndStore(st, k, var_def_node, var_type, value) ==
    LET coerced == coerce_value(value, var_type, <<k, "def">>)
        coercion_errors == coerced.errors
        n == Len(coercion_errors)
        base == Len(st.heap)
        refs == [j \in 1..n |-> base + j]
        rewritten == [j \in 1..n |->
                        [coercion_errors[j] EXCEPT !.message =
                            Prefix(var_def_node.name, value) \o coercion_errors[j].message]]
    IN IF n > 0
       THEN [st EXCEPT !.heap = st.heap \o rewritten,
                       !.produced = [r \in (DOMAIN st.produced) \cup {base + j : j \in 1..n} |->
                                        IF r \in DOMAIN st.produced THEN st.produced[r]
                                        ELSE coercion_errors[r - base].message],
                       !.errors = st.errors \o refs]
       ELSE [st EXCEPT !.coerced_values =
                Put(st.coerced_values, var_def_node.name, coerced.value)]

\* lines 48-104: the body of the loop for var_def_nodes[k]
ProcessVarDef(st, k) ==
    LET var_def_node == var_def_nodes[k]
        var_name == var_def_node.name
        var_type == type_from_ast(var_def_node.type)
    IN IF ~is_input_type(var_type) THEN InvalidTypeError(st, k, var_def_node)
       ELSE IF var_name \notin DOMAIN inputs THEN NotProvided(st, k, var_def_node, var_type)
       ELSE IF inputs[var_name].kind = "null" /\ is_non_null_type(var_type)
            THEN NullError(st, k, var_def_node, var_type)
       ELSE CoerceAndStore(st, k, var_def_node, var_type, inputs[var_name])

VarLocals ==
    [errors |-> errors, heap |-> heap, produced |-> produced,
     coerced_values |-> coerced_values]

\* mutation: the loop stops at the first recorded error
VarLoopGuardFailFast == pc = "loop" /\ i <= Len(var_def_nodes) /\ errors = <<>>

\* The loop continues after every iteration (line 47).
VarLoopGuard == pc = "loop" /\ i <= Len(var_def_nodes)

VarLoop ==
    /\ VarLoopGuard
    /\ LET st == ProcessVarDef(VarLocals, i)
       IN /\ errors' = st.errors
          /\ heap' = st.heap
          /\ produced' = st.produced
          /\ coerced_values' = st.coerced_values
    /\ i' = i + 1
    /\ UNCHANGED <<pc, var_def_nodes, inputs, type_def, node, variable_values, calls, result>>

\* line 106: return errors or coerced_values
VarResult(errs, values) ==
    IF Len(errs) > 0
    THEN [NoResult EXCEPT !.kind = "errors", !.errors = errs]
    ELSE [NoResult EXCEPT !.kind = "values", !.values = values]

VarReturn ==
    /\ pc = "loop"
    /\ ~VarLoopGuard
    /\ result' = VarResult(errors, coerced_values)
    /\ pc' = "done"
    /\ UNCHANGED <<i, var_def_nodes, inputs, errors, heap, produced, type_def, node,
                   variable_values, coerced_values, calls>>

SeqsUpTo(S, n) == UNION {[1..k -> S] : k \in 0..n}

InputDicts ==
    {f \in UNION {[D -> RawValues] : D \in SUBSET InputKeys} :
        "z" \in DOMAIN f => f["z"].kind = "good"}

VarInit ==
    /\ pc = "loop"
    /\ i = 1
    /\ var_def_nodes \in SeqsUpTo(VarDefNodes, MaxVarDefs)
    /\ inputs \in InputDicts
    /\ errors = <<>>
    /\ heap = <<>>
    /\ produced = EmptyDict
    /\ coerced_values = EmptyDict
    /\ type_def = <<>>
    /\ node = <<>>
    /\ variable_values = <<>>
    /\ calls = <<>>
    /\ result = NoResult

VarNext == VarLoop \/ VarReturn

VarSpec == VarInit /\ [][VarNext]_vars

\* ---------------------------------------------------------------- get_argument_values
ArgNames == {"a", "b"}
ArgVarNames == {"v"}
ArgTypes == {"Int", "Int!"}
ArgDefaults == {INVALID, None, "dflt"}

\* GraphQLArgument.out_name: None unless an alias is set
OutNameOf(name) == IF name = "b" THEN "b_out" ELSE None

ArgDefs ==
    {d \in [name : ArgNames, type : ArgTypes, default_value : ArgDefaults,
            out_name : {None, "b_out"}] : d.out_name = OutNameOf(d.name)}

\* type_def.args is a dict: its keys are distinct, its order the declaration order
ArgDefLists ==
    {s \in SeqsUpTo(ArgDefs, Cardinality(ArgNames)) :
        \A k1, k2 \in DOMAIN s : s[k1].name = s[k2].name => k1 = k2}

\* value nodes: NullValueNode, VariableNode, a valid and an invalid literal
ValueNodes ==
    {[kind |-> "NullValue", value |-> "null"], [kind |-> "IntValue", value |-> "1"],
     [kind |-> "StringValue", value |-> "oops"]}
      \cup {[kind |-> "Variable", value |-> v] : v \in ArgVarNames}

ArgNodes == [name : ArgNames, value : ValueNodes]

VariableValues ==
    {[is_none |-> TRUE, map |-> EmptyDict]}
      \cup {[is_none |-> FALSE, map |-> m] :
              m \in UNION {[D -> {None, "5"}] : D \in SUBSET ArgVarNames}}

\* value_from_ast(value_node, type, variables)
value_from_ast(value_node, t, variables) ==
    IF value_node.kind = "NullValue"
    THEN (IF is_non_null_type(t) THEN INVALID ELSE None)
    ELSE IF value_node.kind = "Variable"
         THEN (IF variables.is_none \/ value_node.value \notin DOMAIN variables.map
               THEN INVALID
               ELSE IF variables.map[value_node.value] = None /\ is_non_null_type(t)
                    THEN INVALID
                    ELSE variables.map[value_node.value])
    ELSE IF value_node.kind = "IntValue" THEN "int " \o value_node.value
    ELSE INVALID

\* line 120: {arg.name.value: arg for arg in node.arguments or []}; a later
\* argument of the same name replaces an earlier one
ArgNodeMap(arguments) ==
    [n \in {arguments[k].name : k \in DOMAIN arguments} |->
        arguments[CHOOSE k \in DOMAIN arguments :
                     /\ arguments[k].name = n
                     /\ \A k2 \in DOMAIN arguments : arguments[k2].name = n => k2 <= k]]

NoError == <<>>

\* arg_def.out_name or name
OutKey(arg_def) == IF arg_def.out_name # None THEN arg_def.out_name ELSE arg_def.name

Raise(st, message, at) == [st EXCEPT !.error = <<GraphQLError(message, at)>>]

Store(st, arg_def, value) ==
    [st EXCEPT !.coerced_values = Put(st.coerced_values, OutKey(arg_def), value)]

\* mutation: "no default" is tested as None
HasArgDefaultNotNone(arg_def) == arg_def.default_value # None

\* arg_def.default_value is not INVALID
HasArgDefault(arg_def) == arg_def.default_value # INVALID

\* lines 126-135: no argument node for the definition
NoArgumentNode(st, arg_def) ==
    IF HasArgDefault(arg_def) THEN Store(st, arg_def, arg_def.default_value)
    ELSE IF is_non_null_type(type_from_ast(arg_def.type))
         THEN Raise(st, <<"Argument", arg_def.name, "of required type", arg_def.type,
                          "was not provided.">>, "node")
         ELSE st

\* mutation: a variable mapped to None counts as not provided
NoRuntimeValueOrNull(variables, variable_name) ==
    \/ variables.is_none
    \/ variable_name \notin DOMAIN variables.map
    \/ variables.map[variable_name] = None

\* line 142: variable_values is None or variable_name not in variable_values
NoRuntimeValue(variables, variable_name) ==
    variables.is_none \/ variable_name \notin DOMAIN variables.map

\* lines 143-152: a variable without a runtime value
MissingVariable(st, arg_def, value_node) ==
    IF HasArgDefault(arg_def) THEN Store(st, arg_def, arg_def.default_value)
    ELSE IF is_non_null_type(type_from_ast(arg_def.type))
         THEN Raise(st, <<"Argument", arg_def.name, "of required type", arg_def.type,
                          "was provided the variable", "$" \o value_node.value,
                          "which was not provided a runtime value.">>, value_node)
         ELSE st

\* lines 138 and 153: is_null
IsNull(value_node, variables) ==
    IF value_node.kind = "Variable"
    THEN variables.map[value_node.value] = None
    ELSE value_node.kind = "NullValue"

\* mutation: the null check is skipped when a default is declared
NullViolationUnlessDefault(arg_def, value_node, variables) ==
    /\ IsNull(value_node, variables)
    /\ is_non_null_type(type_from_ast(arg_def.type))
    /\ arg_def.default_value = INVALID

\* line 155: is_null and is_non_null_type(arg_type)
NullViolation(arg_def, value_node, variables) ==
    IsNull(value_node, variables) /\ is_non_null_type(type_from_ast(arg_def.type))

\* lines 161-170: coerce the value node and store the result
CoerceArgument(st, k, arg_def, value_node, variables) ==
    LET coerced_value == value_from_ast(value_node, type_from_ast(arg_def.type), variables)
        st1 == [st EXCEPT !.calls = Append(st.calls, k)]
    IN IF coerced_value = INVALID
       THEN Raise(st1, <<"Argument", arg_def.name, "has invalid value",
                         print_ast(value_node.value)>>, value_node)
       ELSE Store(st1, arg_def, coerced_value)

\* lines 123-170: the body of the loop for the k-th argument definition;
\* st = [coerced_values, calls, error], error = <<e>> when the body raised e
ProcessArgDef(st, args, arguments, variables, k) ==
    LET arg_def == args[k]
        arg_node_map == ArgNodeMap(arguments)
    IN IF arg_def.name \notin DOMAIN arg_node_map THEN NoArgumentNode(st, arg_def)
       ELSE LET value_node == arg_node_map[arg_def.name].value
            IN IF value_node.kind = "Variable" /\ NoRuntimeValue(variables, value_node.value)
               THEN MissingVariable(st, arg_def, value_node)
               ELSE IF NullViolation(arg_def, value_node, variables)
                    THEN Raise(st, <<"Argument", arg_def.name, "of non-null type",
                                     arg_def.type, "must not be null.">>, value_node)
               ELSE CoerceArgument(st, k, arg_def, value_node, variables)

\* mutation: the error is dropped and the loop goes on
ContinueAlways(st) == TRUE

\* a raise leaves the loop and the function: no later definition is visited
ContinueAfter(st) == st.error = NoError

ArgResult(st) ==
    IF st.error # NoError
    THEN [NoResult EXCEPT !.kind = "raise", !.error = st.error]
    ELSE [NoResult EXCEPT !.kind = "values", !.values = st.coerced_values]

RECURSIVE ArgLoopFrom(_, _, _, _, _)
ArgLoopFrom(st, args, arguments, variables, k) ==
    IF k > Len(args) \/ ~ContinueAfter(st) THEN st
    ELSE ArgLoopFrom(ProcessArgDef(st, args, arguments, variables, k),
                     args, arguments, variables, k + 1)

\* lines 119-172 as a function
get_argument_values(td, nd, variables) ==
    ArgResult(ArgLoopFrom([coerced_values |-> EmptyDict, calls |-> <<>>, error |-> NoError],
                          td.args, nd.arguments, variables, 1))

ArgLocals == [coerced_values |-> coerced_values, calls |-> calls, error |-> NoError]

\* one iteration that completes (falls through or continues)
ArgLoop ==
    /\ pc = "loop"
    /\ i <= Len(type_def.args)
    /\ LET st == ProcessArgDef(ArgLocals, type_def.args, node.arguments, variable_values, i)
       IN /\ ContinueAfter(st)
          /\ coerced_values' = st.coerced_values
          /\ calls' = st.calls
    /\ i' = i + 1
    /\ UNCHANGED <<pc, var_def_nodes, inputs, errors, heap, produced, type_def, node,
                   variable_values, result>>

\* one iteration that raises: the call ends with the error
ArgRaise ==
    /\ pc = "loop"
    /\ i <= Len(type_def.args)
    /\ LET st == ProcessArgDef(ArgLocals, type_def.args, node.arguments, variable_values, i)
       IN /\ ~ContinueAfter(st)
          /\ calls' = st.calls
          /\ result' = ArgResult(st)
    /\ pc' = "done"
    /\ UNCHANGED <<i, var_def_nodes, inputs, errors, heap, produced, type_def, node,
                   variable_values, coerced_values>>

\* line 172: return coerced_values
ArgReturn ==
    /\ pc = "loop"
    /\ i > Len(type_def.args)
    /\ result' = ArgResult(ArgLocals)
    /\ pc' = "done"
    /\ UNCHANGED <<i, var_def_nodes, inputs, errors, heap, produced, type_def, node,
                   variable_values, coerced_values, calls>>

ArgInit ==
    /\ pc = "loop"
    /\ i = 1
    /\ type_def \in [name : {"field"}, args : ArgDefLists]
    /\ node \in [name : {"field"}, arguments : SeqsUpTo(ArgNodes, MaxArgNodes)]
    /\ variable_values \in VariableValues
    /\ coerced_values = EmptyDict
    /\ calls = <<>>
    /\ result = NoResult
    /\ var_def_nodes = <<>>
    /\ inputs = EmptyDict
    /\ errors = <<>>
    /\ heap = <<>>
    /\ produced = EmptyDict

ArgNext == ArgLoop \/ ArgRaise \/ ArgReturn

ArgSpec == ArgInit /\ [][ArgNext]_vars

\* ---------------------------------------------------------------- get_directive_values
DirectiveNames == {"skip", "include"}

\* directive definitions: a name and at most one argument, "a"
DirectiveDefs ==
    [name : DirectiveNames,
     args : {s \in ArgDefLists : \A k \in DOMAIN s : s[k].name = "a"}]

\* directive applications: a name and at most one argument node, for "a"
DirectiveNodes ==
    [name : DirectiveNames,
     arguments : {s \in SeqsUpTo(ArgNodes, 1) : \A k \in DOMAIN s : s[k].name = "a"}]

\* mutation: the name of the directive is not compared
DirectiveMatchesAny(directive, directive_def) == TRUE

\* line 200: directive.name.value == directive_name
DirectiveMatches(directive, directive_def) == directive.name = directive_def.name

\* lines 197 and 199: the scan has a next directive (None and an empty list
\* of directives are both the empty sequence)
DirLoopGuard == pc = "loop" /\ i <= Len(node.directives)

\* lines 199-200: the directive's name differs, the scan goes on
DirSkip ==
    /\ DirLoopGuard
    /\ ~DirectiveMatches(node.directives[i], type_def)
    /\ i' = i + 1
    /\ UNCHANGED <<pc, var_def_nodes, inputs, errors, heap, produced, type_def, node,
                   variable_values, coerced_values, calls, result>>

\* line 201: return get_argument_values(directive_def, directive, variable_values)
DirMatch ==
    /\ DirLoopGuard
    /\ DirectiveMatches(node.directives[i], type_def)
    /\ result' = get_argument_values(type_def, node.directives[i], variable_values)
    /\ pc' = "done"
    /\ UNCHANGED <<i, var_def_nodes, inputs, errors, heap, produced, type_def, node,
                   variable_values, coerced_values, calls>>

\* line 202: return None
DirReturnNone ==
    /\ pc = "loop"
    /\ ~DirLoopGuard
    /\ result' = NoResult
    /\ pc' = "done"
    /\ UNCHANGED <<i, var_def_nodes, inputs, errors, heap, produced, type_def, node,
                   variable_values, coerced_values, calls>>

DirInit ==
    /\ pc = "loop"
    /\ i = 1
    /\ type_def \in DirectiveDefs
    /\ node \in [name : {"field"}, directives : SeqsUpTo(DirectiveNodes, MaxDirectives)]
    /\ variable_values \in VariableValues
    /\ coerced_values = EmptyDict
    /\ calls = <<>>
    /\ result = NoResult
    /\ var_def_nodes = <<>>
    /\ inputs = EmptyDict
    /\ errors = <<>>
    /\ heap = <<>>
    /\ produced = EmptyDict

DirNext == DirSkip \/ DirMatch \/ DirReturnNone

DirSpec == DirInit /\ [][DirNext]_vars

\* ---------------------------------------------------------------- properties of get_variable_values
Processed == 1..(i - 1)

DistinctNames ==
    \A k1, k2 \in DOMAIN var_def_nodes :
        var_def_nodes[k1].name = var_def_nodes[k2].name => k1 = k2

\* names for which an error is recorded (every message names its variable second)
ErrorNames == {heap[errors[r]].message[2] : r \in DOMAIN errors}

ResolvedType(k) == type_from_ast(var_def_nodes[k].type)

Supplied(k) == var_def_nodes[k].name \in DOMAIN inputs

ErrorsAt(errs, k) == {r \in DOMAIN errs : heap[errs[r]].node[1] = k}

\* C1: with distinct names, every processed variable name is in the error list
\* or in the coerced map but never in both, and it is in neither only if its
\* type is a nullable input type, it is not supplied and it has no default.
C1_ExactlyOneOfErrorOrValue ==
    DistinctNames =>
        \A k \in Processed :
            LET name == var_def_nodes[k].name
                inErr == ("$" \o name) \in ErrorNames
                inMap == name \in DOMAIN coerced_values
            IN /\ ~(inErr /\ inMap)
               /\ (~inErr /\ ~inMap) =>
                     /\ is_input_type(ResolvedType(k))
                     /\ ~is_non_null_type(ResolvedType(k))
                     /\ ~Supplied(k)
                     /\ ~HasDefault(var_def_nodes[k])

\* the inputs C2 calls valid
ValidInputs ==
    \A k \in DOMAIN var_def_nodes :
        /\ is_input_type(ResolvedType(k))
        /\ Supplied(k) => inputs[var_def_nodes[k].name].kind # "bad"
        /\ Supplied(k) /\ is_non_null_type(ResolvedType(k))
              => inputs[var_def_nodes[k].name].kind # "null"
        /\ is_non_null_type(ResolvedType(k)) /\ ~HasDefault(var_def_nodes[k]) => Supplied(k)

\* C2: for valid inputs the result is a value map whose keys are exactly the
\* declared names that are supplied or have a default.
C2_ValidInputsGiveValueMap ==
    (pc = "done" /\ ValidInputs) =>
        /\ result.kind = "values"
        /\ DOMAIN result.values =
              {var_def_nodes[k].name : k \in
                  {k \in DOMAIN var_def_nodes : Supplied(k) \/ HasDefault(var_def_nodes[k])}}

RequiredMissing(k) ==
    /\ is_non_null_type(ResolvedType(k))
    /\ ~Supplied(k)
    /\ ~HasDefault(var_def_nodes[k])

IsRequiredError(e, k) ==
    /\ e.node = <<k, "def">>
    /\ e.message = <<"Variable", "$" \o var_def_nodes[k].name, "of required type",
                     "Int!", "was not provided.">>

Erring(k) ==
    \/ ~is_input_type(ResolvedType(k))
    \/ RequiredMissing(k)
    \/ Supplied(k) /\ inputs[var_def_nodes[k].name].kind = "bad"
    \/ Supplied(k) /\ inputs[var_def_nodes[k].name].kind = "null"
          /\ is_non_null_type(ResolvedType(k))

ExpectedErrors(k) ==
    IF is_input_type(ResolvedType(k)) /\ Supplied(k)
          /\ inputs[var_def_nodes[k].name].kind = "bad"
    THEN inputs[var_def_nodes[k].name].n
    ELSE 1

NestedMessage(k, j) == <<"Expected type", inspect_type(ResolvedType(k)), "#" \o ToString(j)>>

ExpectedPrefix(k) ==
    <<"Variable", "$" \o var_def_nodes[k].name, "got invalid value",
      inspect(inputs[var_def_nodes[k].name]), ";">>

\* the j-th nested error of definition k is reported with the prefixed message
PrefixedReported(k, j) ==
    \E r \in DOMAIN errors :
        /\ heap[errors[r]].node = <<k, "def">>
        /\ heap[errors[r]].message = ExpectedPrefix(k) \o NestedMessage(k, j)

NestedFailure(k) ==
    /\ is_input_type(ResolvedType(k))
    /\ Supplied(k)
    /\ inputs[var_def_nodes[k].name].kind = "bad"

\* C10 as stated: each nested error is reported with the prefixed message, and
\* the objects the collaborator produced keep their original message.
C10_PrefixedCopies ==
    /\ \A k \in Processed :
          NestedFailure(k) =>
              \A j \in 1..inputs[var_def_nodes[k].name].n : PrefixedReported(k, j)
    /\ \A r \in DOMAIN produced : heap[r].message = produced[r]

\* C10 amended: each nested error is reported with the prefixed message, and
\* the reported objects are the collaborator's own objects, whose message now
\* is the prefixed one.
C10_PrefixedInPlace ==
    /\ \A k \in Processed :
          NestedFailure(k) =>
              \A j \in 1..inputs[var_def_nodes[k].name].n : PrefixedReported(k, j)
    /\ \A r \in DOMAIN produced :
          /\ \E q \in DOMAIN errors : errors[q] = r
          /\ heap[r].message = ExpectedPrefix(heap[r].node[1]) \o produced[r]
          /\ heap[r].message # produced[r]

C10_Witness ==
    /\ pc = "done"
    /\ Cardinality(DOMAIN produced) = 2
    /\ Len(errors) = 3

\* ---------------------------------------------------------------- properties of get_argument_values
NonNullArg(d) == d.type = "Int!"

\* the last argument node named after definition k, if any
HasNode(k) == \E q \in DOMAIN node.arguments : node.arguments[q].name = type_def.args[k].name

ValueNodeOf(k) ==
    node.arguments[CHOOSE q \in DOMAIN node.arguments :
        /\ node.arguments[q].name = type_def.args[k].name
        /\ \A q2 \in DOMAIN node.arguments :
              node.arguments[q2].name = type_def.args[k].name => q2 <= q].value

IsVariableRef(k) == HasNode(k) /\ ValueNodeOf(k).kind = "Variable"

Unresolved(k) ==
    /\ IsVariableRef(k)
    /\ variable_values.is_none \/ ValueNodeOf(k).value \notin DOMAIN variable_values.map

NullCandidate(k) ==
    /\ HasNode(k)
    /\ ~Unresolved(k)
    /\ \/ ValueNodeOf(k).kind = "NullValue"
       \/ /\ ValueNodeOf(k).kind = "Variable"
          /\ variable_values.map[ValueNodeOf(k).value] = "None"

\* the rule of 4.2 that definition k violates, "" if none
Violation(k) ==
    LET d == type_def.args[k]
    IN IF ~HasNode(k) \/ Unresolved(k)
       THEN (IF d.default_value = "INVALID" /\ NonNullArg(d)
             THEN (IF HasNode(k) THEN "which was not provided a runtime value."
                   ELSE "was not provided.")
             ELSE "")
       ELSE IF NullCandidate(k) THEN (IF NonNullArg(d) THEN "must not be null." ELSE "")
       ELSE IF ValueNodeOf(k).kind = "StringValue" THEN "has invalid value"
       ELSE ""

LastToken(message) == message[Len(message)]

\* definition k is the one whose iteration raised
RaisedAt(k) == pc = "done" /\ result.kind = "raise" /\ i = k

\* definition k's iteration has run
Visited(k) == k < i \/ RaisedAt(k)

ExpectedKey(d) == IF d.name = "b" THEN "b_out" ELSE d.name

\* C5: the first argument definition, in declaration order, that violates a
\* rule ends the call with exactly that one error; no later definition is
\* coerced and no value map is returned.
C5_FailFastAtFirstViolation ==
    pc = "done" =>
        LET bad == {k \in DOMAIN type_def.args : Violation(k) # ""}
        IN IF bad = {}
           THEN result.kind = "values" /\ result.error = <<>>
           ELSE LET first == CHOOSE k \in bad : \A k2 \in bad : k <= k2
                IN /\ result.kind = "raise"
                   /\ Len(result.error) = 1
                   /\ result.error[1].message[2] = type_def.args[first].name
                   /\ \/ LastToken(result.error[1].message) = Violation(first)
                      \/ /\ Violation(first) = "has invalid value"
                         /\ result.error[1].message[3] = "has invalid value"
                   /\ result.values = EmptyDict
                   /\ i = first
                   /\ \A c \in DOMAIN calls : calls[c] <= first

C5_Witness ==
    /\ pc = "done"
    /\ Len(type_def.args) = 2
    /\ Len(node.arguments) = 2
    /\ node.arguments[1].name = type_def.args[2].name
    /\ node.arguments[2].name = type_def.args[1].name
    /\ Violation(1) = "must not be null."
    /\ Violation(2) = "has invalid value"
    /\ result.kind = "raise"
    /\ calls = <<>>

\* C6: a variable reference without a runtime value takes the declared
\* default (also for a NonNull type), else fails for a NonNull type, else
\* gives no entry; a variable mapped to null does not take the default.
C6_UnresolvedVariable ==
    \A k \in DOMAIN type_def.args :
        LET d == type_def.args[k]
        IN /\ (Visited(k) /\ Unresolved(k)) =>
                IF d.default_value # "INVALID"
                THEN /\ ~RaisedAt(k)
                     /\ ExpectedKey(d) \in DOMAIN coerced_values
                     /\ coerced_values[ExpectedKey(d)] = d.default_value
                ELSE IF NonNullArg(d)
                     THEN /\ RaisedAt(k)
                          /\ result.error[1].message =
                                <<"Argument", d.name, "of required type", "Int!",
                                  "was provided the variable", "$" \o ValueNodeOf(k).value,
                                  "which was not provided a runtime value.">>
                     ELSE ~RaisedAt(k) /\ ExpectedKey(d) \notin DOMAIN coerced_values
           /\ (Visited(k) /\ IsVariableRef(k) /\ NullCandidate(k)) =>
                IF NonNullArg(d)
                THEN RaisedAt(k) /\ LastToken(result.error[1].message) = "must not be null."
                ELSE /\ ~RaisedAt(k)
                     /\ ExpectedKey(d) \in DOMAIN coerced_values
                     /\ coerced_values[ExpectedKey(d)] = "None"

C6_Witness ==
    /\ pc = "done"
    /\ Len(type_def.args) = 2
    /\ Unresolved(1) /\ NonNullArg(type_def.args[1]) /\ type_def.args[1].default_value = "dflt"
    /\ Unresolved(2) /\ NonNullArg(type_def.args[2]) /\ type_def.args[2].default_value = "INVALID"
    /\ ~variable_values.is_none
    /\ RaisedAt(2)

\* C7: a null candidate for a NonNull argument fails with 'must not be null',
\* default or not, without a call of value_from_ast for it; for a nullable
\* argument the null is coerced and stored, never the default.
C7_NullForNonNull ==
    \A k \in DOMAIN type_def.args :
        LET d == type_def.args[k]
        IN (Visited(k) /\ NullCandidate(k)) =>
              IF NonNullArg(d)
              THEN /\ RaisedAt(k)
                   /\ result.error[1].message =
                         <<"Argument", d.name, "of non-null type", "Int!", "must not be null.">>
                   /\ \A c \in DOMAIN calls : calls[c] # k
              ELSE /\ ~RaisedAt(k)
                   /\ \E c \in DOMAIN calls : calls[c] = k
                   /\ ExpectedKey(d) \in DOMAIN coerced_values
                   /\ coerced_values[ExpectedKey(d)] = "None"

C7_Witness ==
    /\ pc = "done"
    /\ Len(type_def.args) = 2
    /\ NullCandidate(1) /\ ~NonNullArg(type_def.args[1]) /\ type_def.args[1].default_value = "dflt"
    /\ ValueNodeOf(1).kind = "Variable"
    /\ NullCandidate(2) /\ NonNullArg(type_def.args[2]) /\ type_def.args[2].default_value = "dflt"
    /\ ValueNodeOf(2).kind = "NullValue"
    /\ RaisedAt(2)
    /\ calls = <<1>>

\* C8: without an argument node, a default of null gives an entry of null
\* under the output name and no error even for a NonNull type; no default
\* gives the 'was not provided' error for a NonNull type and no entry for a
\* nullable one.
C8_AbsentIsNotNullDefault ==
    \A k \in DOMAIN type_def.args :
        LET d == type_def.args[k]
        IN (Visited(k) /\ ~HasNode(k)) =>
              IF d.default_value = "None"
              THEN /\ ~RaisedAt(k)
                   /\ ExpectedKey(d) \in DOMAIN coerced_values
                   /\ coerced_values[ExpectedKey(d)] = "None"
              ELSE IF d.default_value = "INVALID"
                   THEN IF NonNullArg(d)
                        THEN /\ RaisedAt(k)
                             /\ result.error[1].message =
                                   <<"Argument", d.name, "of required type", "Int!",
                                     "was not provided.">>
                        ELSE ~RaisedAt(k) /\ ExpectedKey(d) \notin DOMAIN coerced_values
                   ELSE TRUE

C8_Witness ==
    /\ pc = "done"
    /\ Len(type_def.args) = 2
    /\ node.arguments = <<>>
    /\ NonNullArg(type_def.args[1]) /\ type_def.args[1].default_value = "None"
    /\ type_def.args[1].name = "b"
    /\ NonNullArg(type_def.args[2]) /\ type_def.args[2].default_value = "INVALID"
    /\ coerced_values = [b_out |-> "None"]
    /\ RaisedAt(2)

\* ---------------------------------------------------------------- properties of get_directive_values
Applications == {q \in DOMAIN node.directives : node.directives[q].name = type_def.name}

\* C9: the result is the outcome of get_argument_values for the first
\* application of the directive's name, and None if there is none.
C9_FirstApplicationDecides ==
    pc = "done" =>
        IF Applications = {}
        THEN result.kind = "none"
        ELSE LET first == CHOOSE q \in Applications : \A q2 \in Applications : q <= q2
             IN /\ i = first
                /\ result = get_argument_values(type_def, node.directives[first],
                                                variable_values)
                /\ result.kind # "none"

C9_Witness ==
    /\ pc = "done"
    /\ Len(node.directives) = 2
    /\ Applications = {1, 2}
    /\ result.kind = "raise"
    /\ get_argument_values(type_def, node.directives[2], variable_values).kind = "values"

====
